---------------------------- MODULE Spec2Model ----------------------------
(***************************************************************************)
(* Model of websocket.py: the audio capture loop (audio_loop), the window  *)
(* analysis and normalisation (process_block), the fan-out (broadcast) and *)
(* the per-connection handler, as tasks of one cooperative event loop.     *)
(*                                                                         *)
(* Scale.  The program runs with FS = WINDOW = 44100 and the band [12,30]. *)
(* The model keeps the relations between the constants (WINDOW = FS,       *)
(* OVERLAP = WINDOW // 2, an inclusive band of bins) at WINDOW = 4, where  *)
(* the Hamming taper is exactly [0.08, 0.77, 0.77, 0.08] and the DFT has   *)
(* the twiddle factors 1, -i, -1, i, so that the band power of a block of  *)
(* integer samples is an exact integer in units of 10^-4.                  *)
(*                                                                         *)
(* Arithmetic.  Samples and band powers are integers; the quotient of      *)
(* line 38 is computed as an exact rational and rounded half to even, as   *)
(* Python's round() does.                                                  *)
(***************************************************************************)
EXTENDS Integers, Sequences, FiniteSets, TLC

(***************************************************************************)
(* Program constants (scaled, see above).                                  *)
(***************************************************************************)
FS == 4

WINDOW == 4

OVERLAP == WINDOW \div 2

BETA_MIN_F == 1

BETA_MAX_F == 2

\* the constants as the program has them, for the band of a one-second window
SourceFS == 44100

SourceWINDOW == 44100

SourceBETA_MIN_F == 12

SourceBETA_MAX_F == 30

(***************************************************************************)
(* Bounds of the model.                                                    *)
(***************************************************************************)
\* number of connections the transport ever accepts
NumSubs == 2

\* number of chunks audio_loop reads
MaxReads == 4

\* window-assembler harness: number of appends and longest chunk
MaxAppends == 2

MaxChunkLen == 4

Subs == 1..NumSubs

\* the sample values the capture source delivers: a two-value alphabet
Samples == {0, 1}

\* Python's None and a present value
None == << >>

Some(x) == << x >>

Val(o) == o[1]

VARIABLES
    clients,      \* the module-level set of connected websockets (line 8)
    buffer,       \* the module-level sample buffer (line 9)
    min_beta,     \* audio_loop's running minimum (None or Some(p))
    max_beta,     \* audio_loop's running maximum (None or Some(p))
    pc,           \* where audio_loop is: read, drain, iter, send, sleep, dead
    err,          \* the exception that ended audio_loop, or "none"
    msg,          \* broadcast's argument
    dead,         \* broadcast's local set
    it,           \* the set iterator of `for c in clients`
    cur,          \* the loop variable c (a one-element or empty sequence)
    hpc,          \* where each connection's handler is: init, ready (its
                  \* task is scheduled), open, done
    closed,       \* connections on which send raises ConnectionClosed
    reads,        \* history: chunks read so far
    stream,       \* history (assembler runs): every sample appended so far
    windows,      \* history (assembler runs): the blocks extracted so far
    nWin,         \* history: blocks given to process_block so far
    lastPower,    \* history: beta_power of the latest block (None before)
    lastVal,      \* history: the value process_block returned for it
    allSame,      \* history: every beta_power so far was the same
    nDefined,     \* history: blocks for which process_block returned a value
    nPub,         \* history: broadcast calls made
    lastPub,      \* history: the message of the latest broadcast call
    pubDone,      \* history: broadcast calls that returned
    callR,        \* history: clients when the running broadcast started
    got,          \* history: connections the running broadcast has sent to
    touched,      \* history: a handler changed clients during that broadcast
    failed,       \* history: connections whose send ever raised
    powers,       \* history (assembler runs): beta_power of each block
    lastChunk,    \* history: the chunk the latest stream.read returned
    bin,          \* band scan: the next bin index of line 31's arange
    band          \* band scan: the bins line 32 has marked so far

codeVars == << clients, buffer, min_beta, max_beta, pc, err, msg, dead, it,
               cur, hpc, closed >>

histVars == << reads, stream, windows, nWin, lastPower, lastVal, allSame,
               nDefined, nPub, lastPub, pubDone, callR, got, touched,
               failed, powers, lastChunk, bin, band >>

vars == << clients, buffer, min_beta, max_beta, pc, err, msg, dead, it,
           cur, hpc, closed, reads, stream, windows, nWin, lastPower,
           lastVal, allSame, nDefined, nPub, lastPub, pubDone, callR, got,
           touched, failed, powers, lastChunk, bin, band >>

(***************************************************************************)
(* process_block, lines 27-39.                                             *)
(***************************************************************************)
RECURSIVE SumTo(_, _)
SumTo(f, n) == IF n = 0 THEN 0 ELSE f[n] + SumTo(f, n - 1)

\* np.hamming(4) * 100
hamming == << 8, 77, 77, 8 >>

\* cos and sin of 2*pi*j/4 for j = 0..3
Cos4 == << 1, 0, -1, 0 >>

Sin4 == << 0, 1, 0, -1 >>

\* block * win (line 29)
Tapered(block) == [n \in 1..Len(block) |-> block[n] * hamming[n]]

\* number of bins np.fft.rfft returns for a block of n samples
NumBins(n) == n \div 2 + 1

\* real and imaginary part of bin k of np.fft.rfft(y)
RfftRe(y, k) ==
    SumTo([n \in 1..Len(y) |-> y[n] * Cos4[((k * (n - 1)) % 4) + 1]], Len(y))

RfftIm(y, k) ==
    SumTo([n \in 1..Len(y) |-> 0 - y[n] * Sin4[((k * (n - 1)) % 4) + 1]], Len(y))

\* P = np.abs(X) ** 2 (line 30), bin k = 0..NumBins-1
Power(y, k) == RfftRe(y, k) * RfftRe(y, k) + RfftIm(y, k) * RfftIm(y, k)

\* a band that leaves out its upper edge
InBandAtOpen(k, numBins, fs, lo, hi) ==
    /\ k * fs >= lo * 2 * (numBins - 1)
    /\ k * fs < hi * 2 * (numBins - 1)

\* lines 31-32 for a sample rate fs and a band [lo, hi]: k*fs/(2*(numBins-1))
\* compared with lo and hi, both sides multiplied by 2*(numBins-1) > 0
InBandAt(k, numBins, fs, lo, hi) ==
    /\ k * fs >= lo * 2 * (numBins - 1)
    /\ k * fs <= hi * 2 * (numBins - 1)

\* lines 31-32: bin k of numBins has frequency k*FS/(2*(numBins-1)) and is
\* in the band when that lies in [BETA_MIN_F, BETA_MAX_F]
InBand(k, numBins) == InBandAt(k, numBins, FS, BETA_MIN_F, BETA_MAX_F)

\* a band power that also carries over the running maximum
BetaPowerStateful(block) ==
    LET y == Tapered(block)
        nb == NumBins(Len(block))
        p == [j \in 1..nb |-> IF InBand(j - 1, nb) THEN Power(y, j - 1) ELSE 0]
    IN  SumTo(p, nb) + (IF max_beta = None THEN 0 ELSE Val(max_beta))

\* lines 28-33: beta_power of a block
BetaPower(block) ==
    LET y == Tapered(block)
        nb == NumBins(Len(block))
        p == [j \in 1..nb |-> IF InBand(j - 1, nb) THEN Power(y, j - 1) ELSE 0]
    IN  SumTo(p, nb)

\* Python's round() of num/den (den > 0, num >= 0): ties go to the even integer
PyRound(num, den) ==
    LET q == num \div den
        r == num % den
    IN  IF 2 * r < den THEN q
        ELSE IF 2 * r > den THEN q + 1
        ELSE IF q % 2 = 0 THEN q ELSE q + 1

\* a minimum that keeps the larger argument
PyMinSwapped(a, b) == IF b < a THEN a ELSE b

PyMin(a, b) == IF b < a THEN b ELSE a

PyMax(a, b) == IF b > a THEN b ELSE a

\* the value computed against the bounds as they were before this sample
NormalizeStale(beta_power, min_b, max_b) ==
    LET mn == IF min_b = None THEN beta_power ELSE PyMin(Val(min_b), beta_power)
        mx == IF max_b = None THEN beta_power ELSE PyMax(Val(max_b), beta_power)
        omn == IF min_b = None THEN beta_power ELSE Val(min_b)
        omx == IF max_b = None THEN beta_power ELSE Val(max_b)
    IN  IF mx = mn
        THEN [value |-> None, min_b |-> Some(mn), max_b |-> Some(mx)]
        ELSE IF omx = omn
        THEN [value |-> Some(PyRound((beta_power - mn) * 100, mx - mn)),
              min_b |-> Some(mn), max_b |-> Some(mx)]
        ELSE [value |-> Some(PyRound((beta_power - omn) * 100, omx - omn)),
              min_b |-> Some(mn), max_b |-> Some(mx)]

\* the degenerate range tested on the bounds as they were before this sample
NormalizeLate(beta_power, min_b, max_b) ==
    LET mn == IF min_b = None THEN beta_power ELSE PyMin(Val(min_b), beta_power)
        mx == IF max_b = None THEN beta_power ELSE PyMax(Val(max_b), beta_power)
    IN  IF mx = mn \/ min_b = None \/ max_b = min_b
        THEN [value |-> None, min_b |-> Some(mn), max_b |-> Some(mx)]
        ELSE [value |-> Some(PyRound((beta_power - mn) * 100, mx - mn)),
              min_b |-> Some(mn), max_b |-> Some(mx)]

\* the sample as a percentage of the maximum, the minimum not subtracted
NormalizePercentOfMax(beta_power, min_b, max_b) ==
    LET mn == IF min_b = None THEN beta_power ELSE PyMin(Val(min_b), beta_power)
        mx == IF max_b = None THEN beta_power ELSE PyMax(Val(max_b), beta_power)
    IN  IF mx = mn
        THEN [value |-> None, min_b |-> Some(mn), max_b |-> Some(mx)]
        ELSE [value |-> Some(PyRound(beta_power * 100, mx)),
              min_b |-> Some(mn), max_b |-> Some(mx)]

\* a value of 0 taken for no value
NormalizeFalsyZero(beta_power, min_b, max_b) ==
    LET mn == IF min_b = None THEN beta_power ELSE PyMin(Val(min_b), beta_power)
        mx == IF max_b = None THEN beta_power ELSE PyMax(Val(max_b), beta_power)
    IN  IF mx = mn \/ beta_power = mn
        THEN [value |-> None, min_b |-> Some(mn), max_b |-> Some(mx)]
        ELSE [value |-> Some(PyRound((beta_power - mn) * 100, mx - mn)),
              min_b |-> Some(mn), max_b |-> Some(mx)]

\* lines 34-39 for a given beta_power
Normalize(beta_power, min_b, max_b) ==
    LET mn == IF min_b = None THEN beta_power ELSE PyMin(Val(min_b), beta_power)
        mx == IF max_b = None THEN beta_power ELSE PyMax(Val(max_b), beta_power)
    IN  IF mx = mn
        THEN [value |-> None, min_b |-> Some(mn), max_b |-> Some(mx)]
        ELSE [value |-> Some(PyRound((beta_power - mn) * 100, mx - mn)),
              min_b |-> Some(mn), max_b |-> Some(mx)]

process_block(block, min_b, max_b) ==
    Normalize(BetaPower(block), min_b, max_b)

(***************************************************************************)
(* The window assembler inside audio_loop, lines 47-49.                    *)
(***************************************************************************)
\* the chunk replacing the buffer instead of being appended to it
ConcatenateReplace(buf, data) == data

Concatenate(buf, data) == buf \o data

\* a window taken only when more than WINDOW samples are buffered
WindowReadyStrict(buf) == Len(buf) > WINDOW

WindowReady(buf) == Len(buf) >= WINDOW

Block(buf) == SubSeq(buf, 1, WINDOW)

\* a hop of a whole window: no overlap
RestNoOverlap(buf) == SubSeq(buf, WINDOW + 1, Len(buf))

Rest(buf) == SubSeq(buf, OVERLAP + 1, Len(buf))

\* broadcasting whatever process_block returned
ShouldBroadcastAlways(val) == TRUE

\* line 51
ShouldBroadcast(val) == val # None

\* json.dumps({"value": val}): one field, an integer (Some(n)) or null (None)
Message(val) == [value |-> val]

(***************************************************************************)
(* Initial state: module globals of lines 8-9, audio_loop at line 43-45,   *)
(* no connection accepted yet.                                             *)
(***************************************************************************)
NoIter == [used |-> 0, visited |-> {}, joined |-> {}]

Init ==
    /\ clients = {}
    /\ buffer = << >>
    /\ min_beta = None
    /\ max_beta = None
    /\ pc = "read"
    /\ err = "none"
    /\ msg = None
    /\ dead = {}
    /\ it = NoIter
    /\ cur = None
    /\ hpc = [s \in Subs |-> "init"]
    /\ closed = {}
    /\ reads = 0
    /\ stream = << >>
    /\ windows = << >>
    /\ nWin = 0
    /\ lastPower = None
    /\ lastVal = None
    /\ allSame = TRUE
    /\ nDefined = 0
    /\ nPub = 0
    /\ lastPub = None
    /\ pubDone = 0
    /\ callR = {}
    /\ got = {}
    /\ touched = FALSE
    /\ failed = {}
    /\ powers = << >>
    /\ lastChunk = << >>
    /\ bin = 0
    /\ band = {}


(***************************************************************************)
(* audio_loop, lines 41-53.  The task runs without interruption between    *)
(* its suspension points: `await c.send(msg)` inside broadcast (pc="send") *)
(* and `await asyncio.sleep(0)` (pc="sleep").  stream.read is a blocking   *)
(* call, not a suspension point.                                           *)
(***************************************************************************)
Chunks(n) == [1..n -> Samples]

\* lines 46-47 for the chunk `data` that stream.read returned
ReadChunk(data) ==
    /\ pc = "read"
    /\ buffer' = Concatenate(buffer, data)
    /\ reads' = reads + 1
    /\ pc' = "drain"
    /\ UNCHANGED << powers, bin, band >>
    /\ UNCHANGED << clients, min_beta, max_beta, err, msg, dead, it, cur, hpc,
                    closed, windows, nWin, lastPower, lastVal, allSame,
                    nDefined, nPub, lastPub, pubDone, callR, got, touched,
                    failed >>

\* line 46: stream.read(OVERLAP) returns exactly OVERLAP frames
Read ==
    /\ reads < MaxReads
    /\ \E data \in Chunks(OVERLAP) : ReadChunk(data) /\ lastChunk' = data
    /\ UNCHANGED stream

\* the failure of line 46 caught and the read tried again
ReadFailRetried ==
    /\ pc = "read"
    /\ pc' = "read"
    /\ err' = "capture"
    /\ UNCHANGED << clients, buffer, min_beta, max_beta, msg, dead, it, cur,
                    hpc, closed >>
    /\ UNCHANGED histVars

\* line 46 raises: nothing in audio_loop or main catches it
ReadFail ==
    /\ pc = "read"
    /\ pc' = "dead"
    /\ err' = "capture"
    /\ UNCHANGED << clients, buffer, min_beta, max_beta, msg, dead, it, cur,
                    hpc, closed >>
    /\ UNCHANGED histVars

\* lines 48-52 up to the first step of broadcast (lines 12-13: dead = set(),
\* iter(clients))
ExtractBlock ==
    /\ pc = "drain"
    /\ WindowReady(buffer)
    /\ \E block \in {Block(buffer)} :
       \E r \in {process_block(block, min_beta, max_beta)} :
       \E power \in {BetaPower(block)} :
           /\ buffer' = Rest(buffer)
           /\ min_beta' = r.min_b
           /\ max_beta' = r.max_b
           /\ nWin' = nWin + 1
           /\ lastPower' = Some(power)
           /\ lastVal' = r.value
           /\ allSame' = (allSame /\ lastPower \in {None, Some(power)})
           /\ nDefined' = IF r.value # None THEN nDefined + 1 ELSE nDefined
           /\ IF ShouldBroadcast(r.value)
              THEN /\ msg' = Message(r.value)
                   /\ dead' = {}
                   /\ it' = [used |-> Cardinality(clients), visited |-> {},
                             joined |-> {}]
                   /\ nPub' = nPub + 1
                   /\ lastPub' = Message(r.value)
                   /\ callR' = clients
                   /\ got' = {}
                   /\ touched' = FALSE
                   /\ pc' = "iter"
              ELSE /\ pc' = "drain"
                   /\ UNCHANGED << msg, dead, it, nPub, lastPub, callR, got,
                                   touched >>
    /\ UNCHANGED << clients, err, cur, hpc, closed, reads, stream, pubDone,
                    failed, lastChunk, bin, band >>

Extract ==
    /\ ExtractBlock
    /\ UNCHANGED << windows, powers >>

\* line 48 false and the loop going straight back to line 46
EndPassNoYield ==
    /\ pc = "drain"
    /\ ~ WindowReady(buffer)
    /\ pc' = "read"
    /\ UNCHANGED << clients, buffer, min_beta, max_beta, err, msg, dead, it,
                    cur, hpc, closed >>
    /\ UNCHANGED histVars

\* line 48 false, line 53 reached
EndPass ==
    /\ pc = "drain"
    /\ ~ WindowReady(buffer)
    /\ pc' = "sleep"
    /\ UNCHANGED << clients, buffer, min_beta, max_beta, err, msg, dead, it,
                    cur, hpc, closed >>
    /\ UNCHANGED histVars

\* audio_loop resumed while a send of its broadcast is still pending
YieldDuringSend ==
    /\ pc \in {"sleep", "send"}
    /\ \A s \in Subs : hpc[s] # "ready"
    /\ pc' = "read"
    /\ UNCHANGED << clients, buffer, min_beta, max_beta, err, msg, dead, it,
                    cur, hpc, closed >>
    /\ UNCHANGED histVars

\* line 53: the event loop resumes audio_loop, after the handler tasks that
\* were ready before it (the ready queue is first in, first out)
Yield ==
    /\ pc = "sleep"
    /\ \A s \in Subs : hpc[s] # "ready"
    /\ pc' = "read"
    /\ UNCHANGED << clients, buffer, min_beta, max_beta, err, msg, dead, it,
                    cur, hpc, closed >>
    /\ UNCHANGED histVars

(***************************************************************************)
(* broadcast, lines 11-18.  `for c in clients` iterates the live set: each *)
(* step of the iterator compares the set's size with the size it had when  *)
(* the iteration began and raises RuntimeError when they differ.  The      *)
(* order of a set is arbitrary.  A member added during the iteration (the  *)
(* size being the same again at the step) lies before or behind the        *)
(* iterator's position, so it may or may not be produced.                  *)
(***************************************************************************)
SizeChanged == Cardinality(clients) # it.used

\* line 18: clients.difference_update(dead)
Pruned(cl, dd) == cl \ dd

\* the failing connection not recorded
MarkedDropped(dd, c) == dd

\* line 17: dead.add(c)
Marked(dd, c) == dd \cup {c}

\* line 13: "Set changed size during iteration" leaves broadcast and
\* audio_loop
IterRaise ==
    /\ pc = "iter"
    /\ SizeChanged
    /\ pc' = "dead"
    /\ err' = "RuntimeError"
    /\ UNCHANGED << clients, buffer, min_beta, max_beta, msg, dead, it, cur,
                    hpc, closed >>
    /\ UNCHANGED histVars

\* line 13 produces the next member, line 15 starts the send
IterYield ==
    /\ pc = "iter"
    /\ ~ SizeChanged
    /\ \E c \in clients \ it.visited :
          /\ cur' = Some(c)
          /\ it' = [it EXCEPT !.visited = @ \cup {c}]
    /\ pc' = "send"
    /\ UNCHANGED << clients, buffer, min_beta, max_beta, err, msg, dead, hpc,
                    closed >>
    /\ UNCHANGED histVars

\* line 13 exhausted, line 18, return to line 48: broadcast's locals are
\* gone
IterStop ==
    /\ pc = "iter"
    /\ ~ SizeChanged
    /\ (clients \ it.visited) \subseteq it.joined
    /\ clients' = Pruned(clients, dead)
    /\ pubDone' = pubDone + 1
    /\ pc' = "drain"
    /\ msg' = None
    /\ dead' = {}
    /\ it' = NoIter
    /\ cur' = None
    /\ callR' = {}
    /\ got' = {}
    /\ touched' = FALSE
    /\ UNCHANGED << buffer, min_beta, max_beta, err, hpc, closed, reads,
                    stream, windows, nWin, lastPower, lastVal, allSame,
                    nDefined, nPub, lastPub, failed >>
    /\ UNCHANGED << powers, lastChunk, bin, band >>

\* line 15 completes
SendOk ==
    /\ pc = "send"
    /\ Val(cur) \notin closed
    /\ got' = got \cup {Val(cur)}
    /\ pc' = "iter"
    /\ UNCHANGED << clients, buffer, min_beta, max_beta, err, msg, dead, it,
                    cur, hpc, closed, reads, stream, windows, nWin, lastPower,
                    lastVal, allSame, nDefined, nPub, lastPub, pubDone, callR,
                    touched, failed >>
    /\ UNCHANGED << powers, lastChunk, bin, band >>

\* line 15 raises ConnectionClosed, lines 16-17
SendClosed ==
    /\ pc = "send"
    /\ Val(cur) \in closed
    /\ dead' = Marked(dead, Val(cur))
    /\ failed' = failed \cup {Val(cur)}
    /\ pc' = "iter"
    /\ UNCHANGED << clients, buffer, min_beta, max_beta, err, msg, it, cur,
                    hpc, closed, reads, stream, windows, nWin, lastPower,
                    lastVal, allSame, nDefined, nPub, lastPub, pubDone, callR,
                    got, touched >>
    /\ UNCHANGED << powers, lastChunk, bin, band >>

(***************************************************************************)
(* handler, lines 20-25, one task per accepted connection, and the         *)
(* transport closing a connection.  These run only while audio_loop is     *)
(* suspended or has ended.                                                 *)
(***************************************************************************)
AudioSuspended == pc \in {"send", "sleep"}

\* main leaves `async with websockets.serve` (lines 57-58) when audio_task
\* has ended: the server stops accepting and cancels the handlers
AudioEnded == pc = "dead"

\* a handler that clears the capture buffer when its connection opens
HandlerStartResets(s) ==
    /\ AudioSuspended
    /\ hpc[s] \in {"init", "ready"}
    /\ clients' = clients \cup {s}
    /\ hpc' = [hpc EXCEPT ![s] = "open"]
    /\ it' = IF pc = "send" THEN [it EXCEPT !.joined = @ \cup {s}] ELSE it
    /\ touched' = (touched \/ pc = "send")
    /\ buffer' = << >>
    /\ UNCHANGED << min_beta, max_beta, pc, err, msg, dead, cur,
                    closed, reads, stream, windows, nWin, lastPower, lastVal,
                    allSame, nDefined, nPub, lastPub, pubDone, callR, got,
                    failed >>
    /\ UNCHANGED << powers, lastChunk, bin, band >>

\* line 21
HandlerStart(s) ==
    /\ AudioSuspended
    /\ hpc[s] \in {"init", "ready"}
    /\ clients' = clients \cup {s}
    /\ hpc' = [hpc EXCEPT ![s] = "open"]
    /\ it' = IF pc = "send" THEN [it EXCEPT !.joined = @ \cup {s}] ELSE it
    /\ touched' = (touched \/ pc = "send")
    /\ UNCHANGED << buffer, min_beta, max_beta, pc, err, msg, dead, cur,
                    closed, reads, stream, windows, nWin, lastPower, lastVal,
                    allSame, nDefined, nPub, lastPub, pubDone, callR, got,
                    failed >>
    /\ UNCHANGED << powers, lastChunk, bin, band >>

\* a handler that ends without line 25
HandlerExitKeeps(s) ==
    /\ AudioSuspended \/ AudioEnded
    /\ hpc[s] = "open"
    /\ clients' = clients
    /\ hpc' = [hpc EXCEPT ![s] = "done"]
    /\ closed' = closed \cup {s}
    /\ touched' = touched
    /\ UNCHANGED << buffer, min_beta, max_beta, pc, err, msg, dead, it, cur,
                    reads, stream, windows, nWin, lastPower, lastVal, allSame,
                    nDefined, nPub, lastPub, pubDone, callR, got, failed >>
    /\ UNCHANGED << powers, lastChunk, bin, band >>

\* lines 24-25: the handler is cancelled, its connection is gone
HandlerExit(s) ==
    /\ AudioSuspended \/ AudioEnded
    /\ hpc[s] = "open"
    /\ clients' = clients \ {s}
    /\ hpc' = [hpc EXCEPT ![s] = "done"]
    /\ closed' = closed \cup {s}
    /\ touched' = (touched \/ (pc = "send" /\ s \in clients))
    /\ UNCHANGED << buffer, min_beta, max_beta, pc, err, msg, dead, it, cur,
                    reads, stream, windows, nWin, lastPower, lastVal, allSame,
                    nDefined, nPub, lastPub, pubDone, callR, got, failed >>
    /\ UNCHANGED << powers, lastChunk, bin, band >>

\* the peer disconnects: from now on send raises ConnectionClosed (line 16)
ConnClose(s) ==
    /\ AudioSuspended
    /\ hpc[s] = "open"
    /\ s \notin closed
    /\ closed' = closed \cup {s}
    /\ UNCHANGED << clients, buffer, min_beta, max_beta, pc, err, msg, dead,
                    it, cur, hpc >>
    /\ UNCHANGED histVars

\* line 57: the server has accepted a connection and scheduled its handler
\* task, which has not run yet
Accept(s) ==
    /\ AudioSuspended
    /\ hpc[s] = "init"
    /\ hpc' = [hpc EXCEPT ![s] = "ready"]
    /\ UNCHANGED << clients, buffer, min_beta, max_beta, pc, err, msg, dead,
                    it, cur, closed >>
    /\ UNCHANGED histVars

Connect == \E s \in Subs : HandlerStart(s)

Arrive == \E s \in Subs : Accept(s)

Disconnect == \E s \in Subs : HandlerExit(s)

PeerClose == \E s \in Subs : ConnClose(s)

Next ==
    \/ Read
    \/ ReadFail
    \/ Extract
    \/ EndPass
    \/ Yield
    \/ IterRaise
    \/ IterYield
    \/ IterStop
    \/ SendOk
    \/ SendClosed
    \/ Connect
    \/ Disconnect
    \/ PeerClose

Spec == Init /\ [][Next]_vars

(***************************************************************************)
(* The same program with the scheduling of handler tasks made explicit: a  *)
(* connection is accepted first and its handler runs later.  The code      *)
(* between two suspension points runs to the next one, and the event loop  *)
(* runs every task that is ready; a read and a send may never return.      *)
(***************************************************************************)
NextLive ==
    \/ Next
    \/ Arrive

\* the steps audio_loop takes without being suspended; at most one of them
\* is enabled in a state
AudioRuns ==
    \/ Extract
    \/ EndPass
    \/ IterRaise
    \/ IterYield
    \/ IterStop

Fairness ==
    /\ WF_vars(AudioRuns)
    /\ \A s \in Subs : WF_vars(HandlerStart(s))

SpecLive == Init /\ [][NextLive]_vars /\ Fairness

(***************************************************************************)
(* The window assembler on its own: the same loop fed chunks of every      *)
(* length 0..MaxChunkLen, with no connection ever accepted.                *)
(***************************************************************************)
AsmAppend ==
    /\ reads < MaxAppends
    /\ \E n \in 0..MaxChunkLen : \E data \in Chunks(n) :
          /\ ReadChunk(data)
          /\ stream' = stream \o data
    /\ UNCHANGED lastChunk

AsmExtract ==
    /\ ExtractBlock
    /\ windows' = Append(windows, Block(buffer))
    /\ powers' = Append(powers, Val(lastPower'))

NextAsm ==
    \/ AsmAppend
    \/ AsmExtract
    \/ IterStop
    \/ EndPass
    \/ Yield

SpecAsm == Init /\ [][NextAsm]_vars

(***************************************************************************)
(* The band mask of line 32 at the program's own constants: the bins of a  *)
(* block of SourceWINDOW samples are scanned in order, bin is the next bin *)
(* and band the bins selected so far.                                      *)
(***************************************************************************)
BandStep ==
    /\ bin < NumBins(SourceWINDOW)
    /\ band' = IF InBandAt(bin, NumBins(SourceWINDOW), SourceFS,
                           SourceBETA_MIN_F, SourceBETA_MAX_F)
               THEN band \cup {bin}
               ELSE band
    /\ bin' = bin + 1
    /\ UNCHANGED codeVars
    /\ UNCHANGED << reads, stream, windows, nWin, lastPower, lastVal, allSame,
                    nDefined, nPub, lastPub, pubDone, callR, got, touched,
                    failed, powers, lastChunk >>

SpecBand == Init /\ [][BandStep]_vars

(***************************************************************************)
(* Properties.                                                             *)
(***************************************************************************)

\* C1: a connection registered while a broadcast call is suspended in a send
\* receives no message from that call, and the call still completes normally
\* (it does not end in an exception).
C1_LateJoinerIsolation ==
    \A s \in it.joined : s \notin got /\ err # "RuntimeError"

\* C2: no registry or delivery fault escapes broadcast: audio_loop is ended
\* only by a failure of the capture read.
C2_OnlyCaptureFailureEscapes ==
    pc = "dead" => err = "capture"

\* C3: when a broadcast call returns and no handler changed the registry
\* during the call, with R the registry at the start of the call and F the
\* members of R whose send raised ConnectionClosed: a send was attempted for
\* every member of R, exactly the members of R \ F received the message, and
\* the registry is R \ F.
C3_FanOutAndPrune ==
    [][ (pc = "iter" /\ pc' = "drain" /\ ~ touched)
          => /\ it.visited = callR
             /\ got = callR \ failed
             /\ got \cap failed = {}
             /\ clients' = callR \ failed ]_vars

\* a broadcast has returned that pruned a failing member and kept another one,
\* which it delivered to
C3_Witness ==
    /\ pc = "drain"
    /\ pubDone >= 1
    /\ failed # {}
    /\ clients # {}
    /\ failed \cap clients = {}
    /\ \A s \in failed \cup clients : hpc[s] = "open"

\* C4: after every extraction pass (the while loop of line 48 has ended) the
\* buffer is shorter than WINDOW, whatever chunks were appended.
C4_BufferBelowWindow ==
    pc \in {"sleep", "read"} => Len(buffer) < WINDOW

\* the second append gave two windows and left WINDOW - 1 samples
C4_Witness ==
    /\ pc = "sleep"
    /\ reads = 2
    /\ Len(stream) = 2 * WINDOW - 1
    /\ Len(windows) = 2
    /\ Len(buffer) = WINDOW - 1

\* C5: the n-th window extracted (n = 0, 1, ...) is the samples at stream
\* positions [n*OVERLAP, n*OVERLAP + WINDOW) in order, and the buffer left
\* after a pass is the part of the stream from position
\* (number of windows)*OVERLAP on.
C5_WindowsAreStreamSlices ==
    /\ \A n \in 1..Len(windows) :
          windows[n] = SubSeq(stream, (n - 1) * OVERLAP + 1,
                              (n - 1) * OVERLAP + WINDOW)
    /\ pc \in {"sleep", "read"}
          => buffer = SubSeq(stream, Len(windows) * OVERLAP + 1, Len(stream))

\* two overlapping windows with different content were extracted
C5_Witness ==
    /\ pc = "sleep"
    /\ Len(windows) >= 2
    /\ windows[1] # windows[2]
    /\ Len(buffer) > 0

\* C6: after each update min <= the sample just processed <= max; min never
\* increases, max never decreases and neither is ever reset to None.
C6_Bounds ==
    /\ [](nWin > 0 => /\ Val(min_beta) <= Val(lastPower)
                      /\ Val(lastPower) <= Val(max_beta))
    /\ [][ min_beta # None
             => /\ min_beta' # None
                /\ max_beta' # None
                /\ Val(min_beta') <= Val(min_beta)
                /\ Val(max_beta') >= Val(max_beta) ]_vars

\* both bounds have moved and the latest sample lies strictly between them
C6_Witness ==
    /\ nWin >= 3
    /\ Val(min_beta) < Val(lastPower)
    /\ Val(lastPower) < Val(max_beta)

\* C7: every value process_block returns, and the value of every message
\* given to broadcast and to send, is an integer in 0..100.
C7_ValueRange ==
    /\ lastVal # None => Val(lastVal) \in 0..100
    /\ pc \in {"iter", "send"}
          => msg.value # None /\ Val(msg.value) \in 0..100
    /\ nPub > 0 => lastPub.value # None /\ Val(lastPub.value) \in 0..100

\* a message with a value strictly inside the range is being sent
C7_Witness ==
    /\ pc = "send"
    /\ Val(msg.value) \in 1..99

\* C8: process_block returns no value exactly when max == min after the
\* update; the first sample gives no value, and while every sample so far
\* was the same no value was returned and no broadcast call was made.
C8_Suppression ==
    nWin > 0 =>
      /\ (lastVal = None) <=> (max_beta = min_beta)
      /\ nWin = 1 => lastVal = None
      /\ allSame => lastVal = None /\ nPub = 0

\* three identical non-zero samples in a row, nothing returned
C8_Witness ==
    /\ nWin >= 3
    /\ allSame
    /\ Val(lastPower) > 0
    /\ lastVal = None

\* C9: every block with a defined value causes exactly one broadcast call,
\* carrying that value, and the call for one block has returned before the
\* next block is analysed.
C9_OnePublishPerValueInOrder ==
    /\ [](/\ nPub = nDefined
          /\ pubDone <= nPub
          /\ nPub <= pubDone + 1)
    /\ [][ nWin' # nWin => pubDone = nPub ]_vars
    /\ [][ nPub' # nPub
             => /\ nPub' = nPub + 1
                /\ nWin' = nWin + 1
                /\ lastVal' # None
                /\ lastPub' = Message(lastVal') ]_vars

\* two broadcast calls, the first returned and the second under way
C9_Witness ==
    /\ nWin = 3
    /\ nPub = 2
    /\ pubDone = 1
    /\ pc = "send"

\* C10: once a capture read has failed audio_loop has ended: no chunk is
\* read, no block extracted or analysed and nothing broadcast or sent after.
C10_CaptureFailureIsFatal ==
    [][ err = "capture"
          => /\ pc = "dead"
             /\ pc' = "dead"
             /\ reads' = reads
             /\ buffer' = buffer
             /\ nWin' = nWin
             /\ nPub' = nPub
             /\ got' = got ]_vars

\* the read failed after values had been broadcast to a connected client, and
\* a handler has been cancelled since
C10_Witness ==
    /\ err = "capture"
    /\ nPub >= 1
    /\ \E s \in Subs : hpc[s] = "done"
    /\ \E s \in Subs : hpc[s] = "open"

C12_FailedSubscriberGone ==
    /\ pc \notin {"iter", "send"} => failed \cap clients = {}
    /\ pc = "send" => Val(cur) \notin failed

C14_CaptureStateOwnedByLoop ==
    [][ /\ buffer' # buffer =>
              \/ pc = "read" /\ reads' = reads + 1
              \/ pc = "drain" /\ nWin' = nWin + 1
        /\ (min_beta' # min_beta \/ max_beta' # max_beta) =>
              pc = "drain" /\ nWin' = nWin + 1
        /\ (hpc' # hpc \/ closed' # closed \/ pc \in {"iter", "send"}) =>
              UNCHANGED << buffer, min_beta, max_beta >> ]_vars

\* a connection joined while a broadcast is suspended in a send, with samples
\* buffered and the running minimum set
C14_Witness ==
    /\ pc = "send"
    /\ it.joined # {}
    /\ Len(buffer) = OVERLAP
    /\ min_beta # None
    /\ max_beta # min_beta

\* C15: a bin is in the band sum exactly when its frequency
\* k*FS/(2*(numBins-1)) is at least BETA_MIN_F and at most BETA_MAX_F; with
\* FS = WINDOW = 44100 and the band [12, 30] the bins selected are exactly
\* 12, 13, ..., 30, nineteen of them.
C15_BandBins ==
    LET nb == NumBins(SourceWINDOW)
    IN  /\ band = (12..30) \cap (0..(bin - 1))
        /\ \A k \in band :
              /\ SourceBETA_MIN_F * 2 * (nb - 1) <= k * SourceFS
              /\ k * SourceFS <= SourceBETA_MAX_F * 2 * (nb - 1)
        /\ bin = nb => Cardinality(band) = 19

\* every bin 0 .. WINDOW/2 has been scanned
C15_Witness ==
    /\ bin = SourceWINDOW \div 2 + 1
    /\ 30 \in band

\* C16: audio_loop reads chunks of OVERLAP samples and WINDOW = 2 * OVERLAP,
\* so when an iteration of the outer loop is over (line 53 reached, or passed
\* and the next read not yet made) the first chunk has produced no block,
\* every later chunk exactly one, and buffer is the most recent chunk,
\* OVERLAP samples long.
C16_OneWindowPerChunk ==
    (pc = "sleep" \/ (pc = "read" /\ reads > 0)) =>
        /\ WINDOW = 2 * OVERLAP
        /\ nWin = reads - 1
        /\ Len(buffer) = OVERLAP
        /\ buffer = lastChunk

\* the third iteration is over: two blocks so far, the last chunk buffered
C16_Witness ==
    /\ pc = "sleep"
    /\ reads = 3
    /\ nWin = 2
    /\ buffer = lastChunk
    /\ Len(lastChunk) = OVERLAP

\* C17: once process_block has returned a value for a block (max_b > min_b
\* has been reached), it returns a value for every later block: the value is
\* never None again.
C17_NeverSuppressedAgain ==
    [][ /\ lastVal # None => lastVal' # None
        /\ (max_beta # min_beta /\ nWin' = nWin + 1) => lastVal' # None
        /\ lastVal' # None => max_beta' # min_beta' ]_vars

\* two values in a row after one suppressed block, the second at the minimum
C17_Witness ==
    /\ nWin = 3
    /\ nDefined = 2
    /\ lastVal = Some(0)
    /\ lastPower = min_beta

\* C18: broadcast sends to one connection at a time and audio_loop waits
\* in it: while a send is pending no chunk is read, no block is extracted,
\* min_beta and max_beta stay as they are and no other broadcast starts or
\* ends; the loop goes on only when that send has completed or failed.
C18_LoopWaitsForSend ==
    [][ pc = "send" =>
          /\ reads' = reads
          /\ nWin' = nWin
          /\ UNCHANGED << buffer, min_beta, max_beta, msg, cur >>
          /\ nPub' = nPub
          /\ pubDone' = pubDone
          /\ pc' \in {"send", "iter"}
          /\ pc' = "iter" => (Val(cur) \in got' \/ Val(cur) \in failed') ]_vars

\* the send to a second connection is pending after the first one was
\* delivered, with chunks still to come
C18_Witness ==
    /\ pc = "send"
    /\ got # {}
    /\ Val(cur) \notin got
    /\ reads < MaxReads

\* C19: a connection is in clients only while its handler is between line
\* 21 and line 25: it enters at its handler's start only, leaves at its
\* handler's exit or when broadcast prunes it after a failed send, and is
\* never in clients once its handler has exited.  The handler's discard of a
\* connection broadcast already pruned, and broadcast's pruning of one its
\* handler already discarded, change nothing and raise nothing.
C19_RegistryLifetime ==
    /\ [](\A s \in clients : hpc[s] = "open")
    /\ [][ /\ \A s \in clients' \ clients :
                 hpc[s] \in {"init", "ready"} /\ hpc'[s] = "open"
           /\ \A s \in clients \ clients' :
                 \/ hpc[s] = "open" /\ hpc'[s] = "done"
                 \/ pc = "iter" /\ pc' = "drain" /\ s \in dead /\ s \in failed
           /\ \A s \in Subs :
                 (hpc[s] = "open" /\ hpc'[s] = "done" /\ s \notin clients) =>
                     clients' = clients /\ err' = err /\ pc' = pc
           /\ (pc = "iter" /\ pc' = "drain") =>
                 clients' = clients \ dead /\ err' = err ]_vars

\* a connection was pruned by a broadcast that returned, its handler exited
\* afterwards, and another connection is still registered
C19_Witness ==
    /\ err = "none"
    /\ pubDone >= 1
    /\ clients # {}
    /\ \E s \in failed : hpc[s] = "done" /\ s \notin clients

\* C20: when max_b differs from min_b after the update of lines 34-35, a
\* block whose band power is the updated max_b gets the value 100 and one
\* whose band power is the updated min_b gets the value 0.
C20_ExtremesMapToEnds ==
    (lastPower # None /\ max_beta # min_beta) =>
        /\ lastPower = max_beta => lastVal = Some(100)
        /\ lastPower = min_beta => lastVal = Some(0)

\* the last block is a new maximum above a positive minimum
C20_Witness ==
    /\ nWin >= 2
    /\ lastPower = max_beta
    /\ lastVal = Some(100)
    /\ Val(min_beta) > 0

=============================================================================
